---- MODULE Spec2Model ----
(***************************************************************************)
(* SVR_model2.2.py: a single-pass solar irradiance forecasting script.     *)
(*                                                                         *)
(* The script is modelled at two levels.                                   *)
(*                                                                         *)
(*  - Spec: the whole run, top to bottom, at the level of row positions.   *)
(*    Every array the script derives from the table is a contiguous slice  *)
(*    of the rows of df, so an array is represented by the half-open       *)
(*    interval [start, stop) of the (0-based) df row positions its         *)
(*    elements come from.  This keeps the real constants (24 lags, the     *)
(*    10000-row tail) and makes "which row does this value come from"      *)
(*    a fact of the state.                                                 *)
(*                                                                         *)
(*  - SpecSeries: windowing, split and scaling (lines 46-80) on explicit   *)
(*    irradiance values, for short series.  The script is run on one       *)
(*    series and then on a second one, the first run's partitions and      *)
(*    fitted scalers being kept in `history`, so that two runs can be      *)
(*    compared.                                                            *)
(*                                                                         *)
(*  - SpecPrep: the preprocessing (lines 25-35) on explicit small tables:  *)
(*    date parsing, indexing and sorting, column selection, missing-value  *)
(*    fill.                                                                *)
(***************************************************************************)
EXTENDS Integers, Sequences, FiniteSets, TLC

\* ---------------------------------------------------------------- constants
\* n_lags = 24 (line 46) and N_LAGS = 24 (line 175); data.tail(10000) (line 41)
n_lags == 24
N_LAGS == 24
TailCap == 10000

\* ------------------------------------------------------------------- bounds
\* Table lengths of the run-level model: 0..MaxSmall rows, the 1000-row
\* table of the end-to-end scenario, and TailCap-1 .. TailCap+MaxOver rows.
MaxSmall == 60
MaxOver == 3
\* SpecSeries: series of n_lags - 1 .. n_lags + MaxSamples values
MaxSamples == 6
\* SpecPrep: tables of 0 .. MaxRows rows
MaxRows == 3

VARIABLES
    pc,               \* position of the script
    csv,              \* the input file: NoFile, or what 'cleaned_dataset.csv' holds
    output,           \* lines printed so far (standard output)
    df,               \* the loaded table, NoTable before the load
    data,             \* the working table: a slice of df's rows
    X, y,             \* samples: window start rows, label rows
    train_size,
    X_train, X_test, y_train, y_test,
    calls,            \* library calls made on the arrays, with the sample count
    predictions,      \* rows the predictions are for
    test_index,       \* slice of df.index
    handed,           \* (test_index, y_test, predictions) handed to each reporting routine
    figures,          \* figures shown, in order
    svr_town_metrics,
    \* ---- SpecSeries: lines 46-80 on explicit values
    spc,              \* position of the script
    series,           \* data['irradiance'].values
    i,                \* loop variable of line 51
    Xv, yv,           \* X, y as built by the loop
    train_size_v,
    Xv_train, Xv_test, yv_train, yv_test,
    scaler_X, scaler_y,
    X_train_scaled, X_test_scaled, y_train_scaled, y_test_scaled,
    history,          \* what the earlier run ended with
    \* ---- SpecPrep: lines 25-35 on explicit tables
    ppc,              \* position of the script
    raw,              \* the rows read from the file, in file order
    df_rows,          \* df: the rows, dates parsed, then indexed and sorted
    data_cols         \* data: the four selected columns

pipeVars == <<pc, csv, output, df, data, X, y, train_size, X_train, X_test,
              y_train, y_test, calls, predictions, test_index, handed, figures,
              svr_town_metrics>>

seriesVars == <<spc, series, i, Xv, yv, train_size_v, Xv_train, Xv_test, yv_train,
                yv_test, scaler_X, scaler_y, X_train_scaled, X_test_scaled,
                y_train_scaled, y_test_scaled, history>>

prepVars == <<ppc, raw, df_rows, data_cols>>

vars == <<pipeVars, seriesVars, prepVars>>

\* --------------------------------------------------------------- helpers
Min(a, b) == IF a <= b THEN a ELSE b
Max(a, b) == IF a >= b THEN a ELSE b

NoFile == [exists |-> FALSE, rows |-> 0, town |-> FALSE, nulls |-> FALSE]
NoTable == [rows |-> 0, town |-> FALSE]
Empty == [start |-> 0, stop |-> 0]

\* len(a) of an array held as a slice of row positions
SLen(s) == s.stop - s.start

\* a[from:to] for 0 <= from, to (Python clips both ends to len(a))
Sub(s, from, to) ==
    LET lo == Min(from, SLen(s))
        hi == Max(lo, Min(to, SLen(s)))
    IN  [start |-> s.start + lo, stop |-> s.start + hi]

\* df.index: one timestamp per row of df
DfIndex == [start |-> 0, stop |-> df.rows]

\* data.tail(10000): the last min(len, 10000) rows
TailRows(s, n) == Sub(s, Max(0, SLen(s) - n), SLen(s))

\* the split taken at the ceiling instead of the floor
TrainSizeCeil(M) == (4 * M + 4) \div 5

\* int(len(X) * 0.8): the double nearest 0.8 is 0.8 * (1 + 2^-54), so the
\* product is below the next double above 4M/5 and truncates to floor(4M/5).
TrainSize(M) == (4 * M) \div 5

TableLens == (0 .. MaxSmall) \cup {1000} \cup ((TailCap - 1) .. (TailCap + MaxOver))

\* a table with a missing value has at least one row
Files == {NoFile} \cup
         {f \in [exists : {TRUE}, rows : TableLens, town : BOOLEAN, nulls : BOOLEAN] :
             f.nulls => f.rows >= 1}

\* ------------------------------------------------------------------ Init
NotFitted == [fitted |-> FALSE, data_min |-> <<>>, data_max |-> <<>>]

\* the series-level variables, unused by the run-level model
SeriesIdle ==
    /\ spc = "idle"
    /\ series = <<>>
    /\ i = 0
    /\ Xv = <<>>
    /\ yv = <<>>
    /\ train_size_v = 0
    /\ Xv_train = <<>>
    /\ Xv_test = <<>>
    /\ yv_train = <<>>
    /\ yv_test = <<>>
    /\ scaler_X = NotFitted
    /\ scaler_y = NotFitted
    /\ X_train_scaled = <<>>
    /\ X_test_scaled = <<>>
    /\ y_train_scaled = <<>>
    /\ y_test_scaled = <<>>
    /\ history = <<>>

NoColumns == [irradiance |-> <<>>, temperature |-> <<>>, humidity |-> <<>>,
              wind_speed |-> <<>>]

\* the run-level variables, unused by the other models
PipeIdle ==
    /\ pc = "idle"
    /\ csv = NoFile
    /\ output = <<>>
    /\ df = NoTable
    /\ data = Empty
    /\ X = Empty
    /\ y = Empty
    /\ train_size = 0
    /\ X_train = Empty
    /\ X_test = Empty
    /\ y_train = Empty
    /\ y_test = Empty
    /\ calls = <<>>
    /\ predictions = Empty
    /\ test_index = Empty
    /\ handed = <<>>
    /\ figures = <<>>
    /\ svr_town_metrics = "unset"

\* the table-level variables, unused by the other models
PrepIdle ==
    /\ ppc = "idle"
    /\ raw = <<>>
    /\ df_rows = <<>>
    /\ data_cols = NoColumns

Init ==
    /\ pc = "load"
    /\ csv \in Files
    /\ output = <<>>
    /\ df = NoTable
    /\ data = Empty
    /\ X = Empty
    /\ y = Empty
    /\ train_size = 0
    /\ X_train = Empty
    /\ X_test = Empty
    /\ y_train = Empty
    /\ y_test = Empty
    /\ calls = <<>>
    /\ predictions = Empty
    /\ test_index = Empty
    /\ handed = <<>>
    /\ figures = <<>>
    /\ svr_town_metrics = "unset"
    /\ SeriesIdle
    /\ PrepIdle

\* ---------------------------------------------------------------- actions
\* Load with the exit() of line 20 left out: the run goes on after the message
LoadWithoutExit ==
    /\ pc = "load"
    /\ UNCHANGED <<seriesVars, prepVars>>
    /\ df' = [rows |-> csv.rows, town |-> csv.town]
    /\ output' = Append(output, IF csv.exists
                                THEN "Dataset loaded successfully."
                                ELSE "Error: 'cleaned_dataset.csv' not found.")
    /\ pc' = "preprocess"
    /\ UNCHANGED <<csv, data, X, y, train_size, X_train, X_test, y_train, y_test,
                   calls, predictions, test_index, handed, figures, svr_town_metrics>>

\* lines 14-20: read_csv inside try/except FileNotFoundError
Load ==
    /\ pc = "load"
    /\ UNCHANGED <<seriesVars, prepVars>>
    /\ IF csv.exists
       THEN /\ df' = [rows |-> csv.rows, town |-> csv.town]
            /\ output' = Append(output, "Dataset loaded successfully.")
            /\ pc' = "preprocess"
       ELSE /\ df' = df
            /\ output' = Append(output, "Error: 'cleaned_dataset.csv' not found.")
            /\ pc' = "exited"
    /\ UNCHANGED <<csv, data, X, y, train_size, X_train, X_test, y_train, y_test,
                   calls, predictions, test_index, handed, figures, svr_town_metrics>>

\* lines 25-35: parse dates, index, sort, select the four columns, fill
Preprocess ==
    /\ pc = "preprocess"
    /\ UNCHANGED <<seriesVars, prepVars>>
    /\ data' = DfIndex
    /\ output' = IF csv.nulls
                 THEN Append(output, "Warning: Missing values found.")
                 ELSE output
    /\ pc' = "reduce"
    /\ UNCHANGED <<csv, df, X, y, train_size, X_train, X_test, y_train, y_test,
                   calls, predictions, test_index, handed, figures, svr_town_metrics>>

\* lines 39-42: data = data.tail(10000)
Reduce ==
    /\ pc = "reduce"
    /\ UNCHANGED <<seriesVars, prepVars>>
    /\ data' = TailRows(data, TailCap)
    /\ output' = output \o <<"Original dataset size", "Reduced dataset size for testing">>
    /\ pc' = "window"
    /\ UNCHANGED <<csv, df, X, y, train_size, X_train, X_test, y_train, y_test,
                   calls, predictions, test_index, handed, figures, svr_town_metrics>>

\* lines 46-59: for i in range(n_lags, len(data)): X gets rows [i-n_lags, i),
\* y gets row i.  X is held by the first row of each window.
Window ==
    /\ pc = "window"
    /\ UNCHANGED <<seriesVars, prepVars>>
    /\ X' = Sub(data, 0, Max(0, SLen(data) - n_lags))
    /\ y' = Sub(data, n_lags, SLen(data))
    /\ output' = output \o <<"Shape of features (X)", "Shape of target (y)">>
    /\ pc' = "split"
    /\ UNCHANGED <<csv, df, data, train_size, X_train, X_test, y_train, y_test,
                   calls, predictions, test_index, handed, figures, svr_town_metrics>>

\* lines 62-67
Split ==
    /\ pc = "split"
    /\ UNCHANGED <<seriesVars, prepVars>>
    /\ train_size' = TrainSize(SLen(X))
    /\ X_train' = Sub(X, 0, train_size')
    /\ X_test' = Sub(X, train_size', SLen(X))
    /\ y_train' = Sub(y, 0, train_size')
    /\ y_test' = Sub(y, train_size', SLen(y))
    /\ output' = output \o <<"Training data points", "Test data points">>
    /\ pc' = "scale"
    /\ UNCHANGED <<csv, df, data, X, y, calls, predictions, test_index, handed,
                   figures, svr_town_metrics>>

\* sklearn's check_array raises ValueError on an array of 0 samples
Raises(call) == call.n = 0

\* the calls of `cs` that run: up to and including the first that raises
RECURSIVE UntilRaise(_)
UntilRaise(cs) ==
    IF cs = <<>> THEN <<>>
    ELSE IF Raises(Head(cs)) THEN <<Head(cs)>>
    ELSE <<Head(cs)>> \o UntilRaise(Tail(cs))

\* lines 70-80: the four scaler calls, in order
ScaleCalls ==
    << [fn |-> "scaler_X.fit_transform", n |-> SLen(X_train)],
       [fn |-> "scaler_X.transform", n |-> SLen(X_test)],
       [fn |-> "scaler_y.fit_transform", n |-> SLen(y_train)],
       [fn |-> "scaler_y.transform", n |-> SLen(y_test)] >>

Scale ==
    /\ pc = "scale"
    /\ UNCHANGED <<seriesVars, prepVars>>
    /\ calls' = calls \o UntilRaise(ScaleCalls)
    /\ pc' = IF \E k \in 1 .. Len(ScaleCalls) : Raises(ScaleCalls[k])
             THEN "crashed"     \* uncaught ValueError
             ELSE "fit"
    /\ UNCHANGED <<csv, output, df, data, X, y, train_size, X_train, X_test,
                   y_train, y_test, predictions, test_index, handed, figures,
                   svr_town_metrics>>

\* lines 84-88
Fit ==
    /\ pc = "fit"
    /\ UNCHANGED <<seriesVars, prepVars>>
    /\ calls' = Append(calls, [fn |-> "svr_model.fit", n |-> SLen(X_train)])
    /\ output' = output \o <<"Fitting SVR model...", "SVR model fitted successfully.">>
    /\ pc' = "predict"
    /\ UNCHANGED <<csv, df, data, X, y, train_size, X_train, X_test, y_train,
                   y_test, predictions, test_index, handed, figures, svr_town_metrics>>

\* line 94-95: test_index_start = n_lags + (len(df) - len(data)) + train_size
TestIndexFirst ==
    LET test_index_start == n_lags + (df.rows - SLen(data)) + train_size
    IN  Sub(DfIndex, test_index_start, test_index_start + SLen(y_test))

\* lines 91-95: one prediction per test sample, then the test index
Predict ==
    /\ pc = "predict"
    /\ UNCHANGED <<seriesVars, prepVars>>
    /\ calls' = Append(calls, [fn |-> "svr_model.predict", n |-> SLen(X_test)])
    /\ predictions' = y_test
    /\ test_index' = TestIndexFirst
    /\ pc' = "evaluate"
    /\ UNCHANGED <<csv, output, df, data, X, y, train_size, X_train, X_test,
                   y_train, y_test, handed, figures, svr_town_metrics>>

\* lines 99-107
Evaluate ==
    /\ pc = "evaluate"
    /\ UNCHANGED <<seriesVars, prepVars>>
    /\ output' = output \o <<"Model Performance Metrics:", "RMSE", "MAE", "MAPE">>
    /\ pc' = "visualize"
    /\ UNCHANGED <<csv, df, data, X, y, train_size, X_train, X_test, y_train,
                   y_test, calls, predictions, test_index, handed, figures,
                   svr_town_metrics>>

\* what a reporting routine is handed
Handed(routine) ==
    [routine |-> routine, test_index |-> test_index, y_test |-> y_test,
     predictions |-> predictions]

\* lines 110-170: the forecast overlay (drawn against test_index), the
\* scatter, the residual histogram and the metric bar chart
Visualize ==
    /\ pc = "visualize"
    /\ UNCHANGED <<seriesVars, prepVars>>
    /\ handed' = Append(handed, Handed("forecast"))
    /\ figures' = figures \o <<"forecast", "scatter", "residual_hist", "metric_bars">>
    /\ pc' = "comparison"
    /\ UNCHANGED <<csv, output, df, data, X, y, train_size, X_train, X_test,
                   y_train, y_test, calls, predictions, test_index, svr_town_metrics>>

\* the recomputation with the tail offset of line 94 kept
TestIndexRecomputedWithOffset ==
    LET start == N_LAGS + (df.rows - SLen(data)) + SLen(X_train)
    IN  Sub(DfIndex, start, start + SLen(y_test))

\* line 203: test_index = df.index[N_LAGS + len(X_train) : N_LAGS + len(X_train) + len(y_test)]
TestIndexRecomputed ==
    Sub(DfIndex, N_LAGS + SLen(X_train), N_LAGS + SLen(X_train) + SLen(y_test))

\* lines 202-204
PlotComparison ==
    /\ pc = "comparison"
    /\ UNCHANGED <<seriesVars, prepVars>>
    /\ test_index' = TestIndexRecomputed
    /\ handed' = Append(handed, [Handed("plot_predictions_comparison")
                                   EXCEPT !.test_index = test_index'])
    /\ figures' = Append(figures, "comparison")
    /\ pc' = "residuals"
    /\ UNCHANGED <<csv, output, df, data, X, y, train_size, X_train, X_test,
                   y_train, y_test, calls, predictions, svr_town_metrics>>

\* line 231 (209-229)
PlotResiduals ==
    /\ pc = "residuals"
    /\ UNCHANGED <<seriesVars, prepVars>>
    /\ handed' = Append(handed, Handed("plot_residuals"))
    /\ figures' = Append(figures, "residuals")
    /\ pc' = "town"
    /\ UNCHANGED <<csv, output, df, data, X, y, train_size, X_train, X_test,
                   y_train, y_test, calls, predictions, test_index, svr_town_metrics>>

\* analyze_town_performance without the guard of lines 237-239
AnalyzeTownPerformanceUnguarded ==
    /\ pc = "town"
    /\ UNCHANGED <<seriesVars, prepVars>>
    /\ handed' = Append(handed, Handed("analyze_town_performance"))
    /\ output' = Append(output, "SVR Town Performance:")
    /\ svr_town_metrics' = "metrics_by_town"
    /\ figures' = Append(figures, "town_metrics")
    /\ pc' = "done"
    /\ UNCHANGED <<csv, df, data, X, y, train_size, X_train, X_test, y_train,
                   y_test, calls, predictions, test_index>>

\* lines 235-270, called at 273-274
AnalyzeTownPerformance ==
    /\ pc = "town"
    /\ UNCHANGED <<seriesVars, prepVars>>
    /\ handed' = Append(handed, Handed("analyze_town_performance"))
    /\ IF ~ df.town
       THEN /\ output' = output \o <<"SVR Town Performance:",
                   "No town information available for performance analysis">>
            /\ svr_town_metrics' = "None"
            /\ figures' = figures
       ELSE /\ output' = Append(output, "SVR Town Performance:")
            /\ svr_town_metrics' = "metrics_by_town"
            /\ figures' = Append(figures, "town_metrics")
    /\ pc' = "done"
    /\ UNCHANGED <<csv, df, data, X, y, train_size, X_train, X_test, y_train,
                   y_test, calls, predictions, test_index>>

Next ==
    \/ Load
    \/ Preprocess
    \/ Reduce
    \/ Window
    \/ Split
    \/ Scale
    \/ Fit
    \/ Predict
    \/ Evaluate
    \/ Visualize
    \/ PlotComparison
    \/ PlotResiduals
    \/ AnalyzeTownPerformance

Spec == Init /\ [][Next]_vars

\* ======================================================== series level
\* lines 46-80 on explicit values

\* s[from:to] of a sequence, 0 <= from, to (0-based, half-open, clipped)
SeqSlice(s, from, to) == SubSeq(s, Min(from, Len(s)) + 1, Min(to, Len(s)))

\* The series a run is given: 10 + p at position p, with the first value
\* optionally raised and each of the last two values optionally replaced by
\* a value below or above every other.
Replaced(v, how) == IF how = "low" THEN 0 ELSE IF how = "high" THEN 99 ELSE v

MakeSeries(N, first, t1, t2) ==
    [p \in 1 .. N |->
        IF p = N THEN Replaced(10 + p, t2)
        ELSE IF p = N - 1 THEN Replaced(10 + p, t1)
        ELSE IF p = 1 /\ first THEN 60
        ELSE 10 + p]

SeriesSet ==
    { MakeSeries(N, first, t1, t2) :
        N \in (n_lags - 1) .. (n_lags + MaxSamples), first \in BOOLEAN,
        t1 \in {"keep", "low", "high"}, t2 \in {"keep", "low", "high"} }

\* the state at line 46 of a run on the series s
StartRun(s) ==
    /\ spc' = "window"
    /\ series' = s
    /\ i' = n_lags                       \* range(n_lags, len(data)) starts here
    /\ Xv' = <<>>
    /\ yv' = <<>>
    /\ train_size_v' = 0
    /\ Xv_train' = <<>>
    /\ Xv_test' = <<>>
    /\ yv_train' = <<>>
    /\ yv_test' = <<>>
    /\ scaler_X' = NotFitted
    /\ scaler_y' = NotFitted
    /\ X_train_scaled' = <<>>
    /\ X_test_scaled' = <<>>
    /\ y_train_scaled' = <<>>
    /\ y_test_scaled' = <<>>

InitSeries ==
    /\ spc = "window"
    /\ series \in SeriesSet
    /\ i = n_lags
    /\ Xv = <<>>
    /\ yv = <<>>
    /\ train_size_v = 0
    /\ Xv_train = <<>>
    /\ Xv_test = <<>>
    /\ yv_train = <<>>
    /\ yv_test = <<>>
    /\ scaler_X = NotFitted
    /\ scaler_y = NotFitted
    /\ X_train_scaled = <<>>
    /\ X_test_scaled = <<>>
    /\ y_train_scaled = <<>>
    /\ y_test_scaled = <<>>
    /\ history = <<>>
    /\ PipeIdle
    /\ PrepIdle

\* the window one position late: iloc[k-n_lags+1 : k+1]
WindowAtShifted(s, k) == SeqSlice(s, k - n_lags + 1, k + 1)

\* line 52: data['irradiance'].iloc[k-n_lags:k].values
WindowAt(s, k) == SeqSlice(s, k - n_lags, k)

\* line 53: data['irradiance'].iloc[k]
LabelAt(s, k) == s[k + 1]

\* lines 51-53: one iteration of the loop
WindowStep ==
    /\ spc = "window"
    /\ i < Len(series)
    /\ Xv' = Append(Xv, WindowAt(series, i))
    /\ yv' = Append(yv, LabelAt(series, i))
    /\ i' = i + 1
    /\ UNCHANGED <<spc, series, train_size_v, Xv_train, Xv_test, yv_train, yv_test,
                   scaler_X, scaler_y, X_train_scaled, X_test_scaled,
                   y_train_scaled, y_test_scaled, history>>
    /\ UNCHANGED <<pipeVars, prepVars>>

\* line 51: the range is exhausted (lines 55-59 convert and print)
WindowEnd ==
    /\ spc = "window"
    /\ i >= Len(series)
    /\ spc' = "split"
    /\ UNCHANGED <<series, i, Xv, yv, train_size_v, Xv_train, Xv_test, yv_train,
                   yv_test, scaler_X, scaler_y, X_train_scaled, X_test_scaled,
                   y_train_scaled, y_test_scaled, history>>
    /\ UNCHANGED <<pipeVars, prepVars>>

\* lines 62-64
SplitSeries ==
    /\ spc = "split"
    /\ train_size_v' = TrainSize(Len(Xv))
    /\ Xv_train' = SeqSlice(Xv, 0, train_size_v')
    /\ Xv_test' = SeqSlice(Xv, train_size_v', Len(Xv))
    /\ yv_train' = SeqSlice(yv, 0, train_size_v')
    /\ yv_test' = SeqSlice(yv, train_size_v', Len(yv))
    /\ spc' = "fit_X"
    /\ UNCHANGED <<series, i, Xv, yv, scaler_X, scaler_y, X_train_scaled,
                   X_test_scaled, y_train_scaled, y_test_scaled, history>>
    /\ UNCHANGED <<pipeVars, prepVars>>

\* ---- MinMaxScaler, feature_range (0, 1)
SeqMin(m, j) == CHOOSE v \in {m[k][j] : k \in 1 .. Len(m)} :
                    \A k \in 1 .. Len(m) : v <= m[k][j]
SeqMax(m, j) == CHOOSE v \in {m[k][j] : k \in 1 .. Len(m)} :
                    \A k \in 1 .. Len(m) : v >= m[k][j]

\* fit: the column-wise minimum and maximum of the samples m (at least one)
FitMinMax(m) ==
    [fitted |-> TRUE,
     data_min |-> [j \in 1 .. Len(m[1]) |-> SeqMin(m, j)],
     data_max |-> [j \in 1 .. Len(m[1]) |-> SeqMax(m, j)]]

\* _handle_zeros_in_scale: a zero range scales by 1
HandleZeros(r) == IF r = 0 THEN 1 ELSE r

\* transform: (x - data_min) / (data_max - data_min), as a fraction
Transform(sc, m) ==
    [k \in 1 .. Len(m) |->
        [j \in 1 .. Len(m[k]) |->
            [num |-> m[k][j] - sc.data_min[j],
             den |-> HandleZeros(sc.data_max[j] - sc.data_min[j])]]]

\* reshape(-1, 1) and flatten()
Reshape(v) == [k \in 1 .. Len(v) |-> <<v[k]>>]
Flatten(m) == [k \in 1 .. Len(m) |-> m[k][1]]

\* scaler_X fitted on every sample, the test samples included
FitArgXAll == Xv

\* line 73: what scaler_X is fitted on
FitArgX == Xv_train

\* lines 76, 79: what scaler_y is fitted on
FitArgY == Reshape(yv_train)

\* line 73: X_train_scaled = scaler_X.fit_transform(X_train)
FitTransformX ==
    /\ spc = "fit_X"
    /\ IF Len(Xv_train) = 0
       THEN /\ spc' = "crashed"           \* ValueError: 0 samples
            /\ UNCHANGED <<scaler_X, X_train_scaled>>
       ELSE /\ scaler_X' = FitMinMax(FitArgX)
            /\ X_train_scaled' = Transform(scaler_X', Xv_train)
            /\ spc' = "transform_X"
    /\ UNCHANGED <<series, i, Xv, yv, train_size_v, Xv_train, Xv_test, yv_train,
                   yv_test, scaler_y, X_test_scaled, y_train_scaled,
                   y_test_scaled, history>>
    /\ UNCHANGED <<pipeVars, prepVars>>

\* line 74: X_test_scaled = scaler_X.transform(X_test)
TransformXTest ==
    /\ spc = "transform_X"
    /\ X_test_scaled' = Transform(scaler_X, Xv_test)
    /\ spc' = "fit_y"
    /\ UNCHANGED <<series, i, Xv, yv, train_size_v, Xv_train, Xv_test, yv_train,
                   yv_test, scaler_X, scaler_y, X_train_scaled, y_train_scaled,
                   y_test_scaled, history>>
    /\ UNCHANGED <<pipeVars, prepVars>>

\* lines 76, 79: y_train_scaled = scaler_y.fit_transform(y_train_reshaped).flatten()
FitTransformY ==
    /\ spc = "fit_y"
    /\ scaler_y' = FitMinMax(FitArgY)
    /\ y_train_scaled' = Flatten(Transform(scaler_y', Reshape(yv_train)))
    /\ spc' = "transform_y"
    /\ UNCHANGED <<series, i, Xv, yv, train_size_v, Xv_train, Xv_test, yv_train,
                   yv_test, scaler_X, X_train_scaled, X_test_scaled,
                   y_test_scaled, history>>
    /\ UNCHANGED <<pipeVars, prepVars>>

\* lines 77, 80: y_test_scaled = scaler_y.transform(y_test_reshaped).flatten()
TransformYTest ==
    /\ spc = "transform_y"
    /\ y_test_scaled' = Flatten(Transform(scaler_y, Reshape(yv_test)))
    /\ spc' = "scaled"
    /\ UNCHANGED <<series, i, Xv, yv, train_size_v, Xv_train, Xv_test, yv_train,
                   yv_test, scaler_X, scaler_y, X_train_scaled, X_test_scaled,
                   y_train_scaled, history>>
    /\ UNCHANGED <<pipeVars, prepVars>>

\* The script is run again, on another series; what the finished run ended
\* with is kept.
RunAgain ==
    /\ spc \in {"scaled", "crashed"}
    /\ history = <<>>
    /\ history' = << [Xv_train |-> Xv_train, Xv_test |-> Xv_test,
                      yv_train |-> yv_train, yv_test |-> yv_test,
                      scaler_X |-> scaler_X, scaler_y |-> scaler_y] >>
    /\ \E s \in SeriesSet : StartRun(s)
    /\ UNCHANGED <<pipeVars, prepVars>>

NextSeries ==
    \/ WindowStep
    \/ WindowEnd
    \/ SplitSeries
    \/ FitTransformX
    \/ TransformXTest
    \/ FitTransformY
    \/ TransformYTest
    \/ RunAgain

SpecSeries == InitSeries /\ [][NextSeries]_vars

\* ========================================================= table level
\* lines 25-35 on explicit tables

\* a missing cell (NaN) and a missing timestamp (NaT); values are >= 0 and
\* timestamps are day numbers >= 1
NaN == -1
NaT == 0

Columns == {"irradiance", "temperature", "humidity", "wind_speed"}

\* the 'date' cells a file may hold: three days, an empty cell, and text
\* that is no date
DateCells == {"2021-01-01", "2021-01-02", "2021-01-03", "", "not a date"}

Row(d, a, b, c, e) ==
    [date |-> d, irradiance |-> a, temperature |-> b, humidity |-> c,
     wind_speed |-> e]

\* a column of n cells holding v + k at row k, with the gap `kind` says
GapColumn(kind, n, v) ==
    [k \in 1 .. n |->
        IF kind = "all_missing" THEN NaN
        ELSE IF kind = "leading_gap" /\ k = 1 THEN NaN
        ELSE IF kind = "trailing_gap" /\ k = n THEN NaN
        ELSE v + k]

GapKinds == {"complete", "leading_gap", "trailing_gap", "all_missing"}

\* tables with any dates, in any order, and complete or gapped values
DateTables(n) ==
    { [k \in 1 .. n |->
          Row(d[k], GapColumn(kind, n, 10)[k], GapColumn("complete", n, 20)[k],
              GapColumn(kind, n, 30)[k], GapColumn("complete", n, 40)[k])] :
        d \in [1 .. n -> DateCells], kind \in {"complete", "leading_gap"} }

\* tables with any irradiance cells and any gap in the three other columns,
\* the days cycling through the three valid ones
ValueTables(n) ==
    { [k \in 1 .. n |->
          Row(IF k % 3 = 1 THEN "2021-01-01"
              ELSE IF k % 3 = 2 THEN "2021-01-02" ELSE "2021-01-03",
              a[k], GapColumn(kt, n, 20)[k], GapColumn(kh, n, 30)[k],
              GapColumn(kw, n, 40)[k])] :
        a \in [1 .. n -> {NaN, 1, 2}], kt \in GapKinds, kh \in GapKinds,
        kw \in GapKinds }

RawTables == UNION { DateTables(n) \cup ValueTables(n) : n \in 0 .. MaxRows }

InitPrep ==
    /\ ppc = "parse"
    /\ raw \in RawTables
    /\ df_rows = raw
    /\ data_cols = NoColumns
    /\ PipeIdle
    /\ SeriesIdle

\* pd.to_datetime on one cell: the day number, NaT for an empty cell
Parseable(cell) == cell \in {"2021-01-01", "2021-01-02", "2021-01-03", ""}
ToDatetime(cell) ==
    IF cell = "2021-01-01" THEN 1
    ELSE IF cell = "2021-01-02" THEN 2
    ELSE IF cell = "2021-01-03" THEN 3
    ELSE NaT

\* line 25: df['date'] = pd.to_datetime(df['date'])
ParseDates ==
    /\ ppc = "parse"
    /\ IF \A k \in 1 .. Len(df_rows) : Parseable(df_rows[k].date)
       THEN /\ df_rows' = [k \in 1 .. Len(df_rows) |->
                              [df_rows[k] EXCEPT !.date = ToDatetime(@)]]
            /\ ppc' = "sort"
       ELSE /\ df_rows' = df_rows
            /\ ppc' = "crashed"           \* uncaught parse error
    /\ UNCHANGED <<raw, data_cols>>
    /\ UNCHANGED <<pipeVars, seriesVars>>

\* position of a timestamp in the sort: NaT goes last (na_position='last')
SortKey(d) == IF d = NaT THEN ToDatetime("2021-01-03") + 1 ELSE d

\* the sort taken descending
InOrderDescending(a, b) == SortKey(a) >= SortKey(b)

\* line 27: a may stand before b in the sorted index (ascending)
InOrder(a, b) == SortKey(a) <= SortKey(b)

\* the orders sort_index may leave n rows in: the default kind is
\* 'quicksort', which is not stable, so rows of equal timestamp come in any
\* order
SortedOrders(t) ==
    { o \in [1 .. Len(t) -> 1 .. Len(t)] :
        /\ \A a, b \in 1 .. Len(t) : a # b => o[a] # o[b]
        /\ \A a, b \in 1 .. Len(t) : a < b => InOrder(t[o[a]].date, t[o[b]].date) }

\* lines 26-27: set_index('date'), sort_index()
SetIndexSort ==
    /\ ppc = "sort"
    /\ \E o \in SortedOrders(df_rows) :
           df_rows' = [k \in 1 .. Len(df_rows) |-> df_rows[o[k]]]
    /\ ppc' = "select"
    /\ UNCHANGED <<raw, data_cols>>
    /\ UNCHANGED <<pipeVars, seriesVars>>

\* line 30: data = df[['irradiance', 'temperature', 'humidity', 'wind_speed']]
SelectColumns ==
    /\ ppc = "select"
    /\ data_cols' = [c \in Columns |-> [k \in 1 .. Len(df_rows) |-> df_rows[k][c]]]
    /\ ppc' = "impute"
    /\ UNCHANGED <<raw, df_rows>>
    /\ UNCHANGED <<pipeVars, seriesVars>>

\* ffill of one column: walk down, carrying the last valid value
RECURSIVE FfillFrom(_, _, _)
FfillFrom(col, k, last) ==
    IF k > Len(col) THEN <<>>
    ELSE IF col[k] # NaN THEN <<col[k]>> \o FfillFrom(col, k + 1, col[k])
    ELSE <<last>> \o FfillFrom(col, k + 1, last)

Ffill(col) == FfillFrom(col, 1, NaN)

Reverse(col) == [k \in 1 .. Len(col) |-> col[Len(col) + 1 - k]]

\* bfill of one column: ffill from the bottom up
Bfill(col) == Reverse(Ffill(Reverse(col)))

\* the fill with the backward pass left out
FfillOnly(col) == Ffill(col)

\* line 35: ffill().bfill(), column by column
FillColumn(col) == Bfill(Ffill(col))

\* line 33: data.isnull().sum().sum()
NullCount(cols) ==
    Cardinality({ ck \in Columns \X (1 .. Len(cols.irradiance)) :
                    cols[ck[1]][ck[2]] = NaN })

\* lines 33-35
Impute ==
    /\ ppc = "impute"
    /\ data_cols' = IF NullCount(data_cols) > 0
                    THEN [c \in Columns |-> FillColumn(data_cols[c])]
                    ELSE data_cols
    /\ ppc' = "filled"
    /\ UNCHANGED <<raw, df_rows>>
    /\ UNCHANGED <<pipeVars, seriesVars>>

NextPrep ==
    \/ ParseDates
    \/ SetIndexSort
    \/ SelectColumns
    \/ Impute

SpecPrep == InitPrep /\ [][NextPrep]_vars

\* ------------------------------------------------------------ claims (Spec)
AfterSplit == pc \notin {"load", "exited", "preprocess", "reduce", "window", "split"}

\* two slices select the same rows
SameRows(a, b) == (SLen(a) = 0 /\ SLen(b) = 0) \/ a = b

\* C2: train_size = floor(0.8 * M); the training set is the first train_size
\* samples and the test set the remaining M - train_size, so that train
\* followed by test is the ordered sample sequence, nothing in both, nothing
\* dropped; a 1000-row table gives train 780 and test 196.
C2_SplitPartitions ==
    AfterSplit =>
        LET M == SLen(X) IN
        /\ 5 * train_size <= 4 * M
        /\ 4 * M < 5 * (train_size + 1)
        /\ SLen(X_train) = train_size /\ SLen(y_train) = train_size
        /\ SLen(X_test) = M - train_size /\ SLen(y_test) = M - train_size
        /\ X_train.start = X.start /\ X_train.stop = X_test.start
        /\ X_test.stop = X.stop
        /\ y_train.start = y.start /\ y_train.stop = y_test.start
        /\ y_test.stop = y.stop
        /\ (df.rows = 1000 => SLen(X_train) = 780 /\ SLen(X_test) = 196)

C2_Witness ==
    /\ pc = "scale" /\ df.rows = 1000
    /\ SLen(y_train) = 780 /\ SLen(y_test) = 196

\* C3: every test_index handed to a reporting routine has the length of
\* y_test and of the predictions, and its k-th timestamp is the timestamp
\* of the row whose irradiance is the k-th test label.
C3_TestIndexAligned ==
    \A k \in 1 .. Len(handed) :
        /\ SLen(handed[k].test_index) = SLen(handed[k].y_test)
        /\ SLen(handed[k].test_index) = SLen(handed[k].predictions)
        /\ SameRows(handed[k].test_index, handed[k].y_test)

\* C4: when the training or the test partition is empty, no scaler fit and
\* no estimator fit is invoked.
C4_NoFitOnEmptyPartition ==
    (AfterSplit /\ (SLen(X_train) = 0 \/ SLen(X_test) = 0)) =>
        \A k \in 1 .. Len(calls) :
            calls[k].fn \notin {"scaler_X.fit_transform", "scaler_y.fit_transform",
                                "svr_model.fit"}

\* C5: when the input file is absent the program prints the diagnostic and
\* terminates: no later stage runs and nothing is printed after it.
C5_MissingFileStopsRun ==
    ~ csv.exists =>
        /\ pc \in {"load", "exited"}
        /\ (pc = "load" => output = <<>>)
        /\ (pc = "exited" => output = <<"Error: 'cleaned_dataset.csv' not found.">>)
        /\ df = NoTable /\ data = Empty /\ X = Empty /\ y = Empty
        /\ calls = <<>> /\ handed = <<>> /\ figures = <<>>

C5_Witness ==
    /\ ~ csv.exists /\ pc = "exited"
    /\ output = <<"Error: 'cleaned_dataset.csv' not found.">>

\* C9: with no 'town' column analyze_town_performance prints the notice and
\* returns None, computes no metric and shows no figure, and the run ends
\* normally.
C9_NoTownSkipsWithNotice ==
    (svr_town_metrics # "unset" /\ ~ df.town) =>
        /\ svr_town_metrics = "None"
        /\ pc = "done"
        /\ output[Len(output)] = "No town information available for performance analysis"
        /\ figures = <<"forecast", "scatter", "residual_hist", "metric_bars",
                       "comparison", "residuals">>

C9_Witness ==
    /\ pc = "done" /\ ~ df.town /\ svr_town_metrics = "None"
    /\ handed[Len(handed)].routine = "analyze_town_performance"

\* C10: the test_index of line 95 and the one recomputed at line 203 select
\* the same rows if and only if the tail offset len(df) - len(data) is zero,
\* that is the table has at most 10000 rows; otherwise the second is the
\* first shifted earlier by exactly the offset.
C10_IndexFormulasAgreeIffNoOffset ==
    Len(handed) >= 2 =>
        LET first == handed[1].test_index
            second == handed[2].test_index
            offset == df.rows - SLen(data)
        IN  /\ SameRows(first, second) <=> offset = 0
            /\ offset = 0 <=> csv.rows <= TailCap
            /\ second.start = first.start - offset
            /\ second.stop = first.stop - offset

C10_Witness ==
    /\ Len(handed) >= 2
    /\ df.rows - SLen(data) > 0
    /\ handed[2].test_index.start < handed[1].test_index.start
    /\ handed[2].routine = "plot_predictions_comparison"

\* ------------------------------------------------------ claims (SpecSeries)
\* C1: a series of N values with n_lags < N gives exactly N - n_lags samples;
\* every feature vector has n_lags values; the feature vector of sample k
\* (counted from 0) is the series at positions k .. k + n_lags - 1, in that
\* order, and its label is the series at position k + n_lags.
C1_WindowsPrecedeLabels ==
    /\ Len(Xv) = Len(yv)
    /\ \A k \in 0 .. Len(Xv) - 1 :
        /\ Len(Xv[k + 1]) = n_lags
        /\ \A j \in 0 .. n_lags - 1 : Xv[k + 1][j + 1] = series[(k + j) + 1]
        /\ yv[k + 1] = series[(k + n_lags) + 1]
    /\ (spc \notin {"idle", "window"} /\ n_lags < Len(series)) =>
           Len(Xv) = Len(series) - n_lags

C1_Witness ==
    /\ spc = "split"
    /\ Len(series) = n_lags + 3
    /\ Len(Xv) = 3
    /\ Xv[3] = SubSeq(series, 3, n_lags + 2)
    /\ yv[3] = series[n_lags + 3]

\* v is the least (greatest) value of column j of the samples m
IsColumnMin(v, m, j) ==
    /\ \E k \in 1 .. Len(m) : m[k][j] = v
    /\ \A k \in 1 .. Len(m) : v <= m[k][j]
IsColumnMax(v, m, j) ==
    /\ \E k \in 1 .. Len(m) : m[k][j] = v
    /\ \A k \in 1 .. Len(m) : v >= m[k][j]

\* C7: the fitted minimum and maximum of scaler_X and of scaler_y are those
\* of the training partition, from the fit to the end of the run (so also
\* after the test partition went through transform); two runs with the same
\* training partition end with the same fitted bounds whatever their test
\* partitions.
C7_ScalersFitOnTrainOnly ==
    /\ scaler_X.fitted =>
        /\ Len(scaler_X.data_min) = n_lags /\ Len(scaler_X.data_max) = n_lags
        /\ \A j \in 1 .. n_lags :
            /\ IsColumnMin(scaler_X.data_min[j], Xv_train, j)
            /\ IsColumnMax(scaler_X.data_max[j], Xv_train, j)
    /\ scaler_y.fitted =>
        /\ IsColumnMin(scaler_y.data_min[1], Reshape(yv_train), 1)
        /\ IsColumnMax(scaler_y.data_max[1], Reshape(yv_train), 1)
    /\ (history # <<>> /\ scaler_X.fitted /\ history[1].Xv_train = Xv_train) =>
           scaler_X = history[1].scaler_X
    /\ (history # <<>> /\ scaler_y.fitted /\ history[1].yv_train = yv_train) =>
           scaler_y = history[1].scaler_y

\* two finished runs, the same training partition, different test
\* partitions, the second with test values outside the fitted bounds
C7_Witness ==
    /\ history # <<>> /\ spc = "scaled"
    /\ history[1].Xv_train = Xv_train /\ history[1].yv_train = yv_train
    /\ history[1].Xv_test # Xv_test /\ history[1].yv_test # yv_test
    /\ Len(history[1].yv_test) # Len(yv_test)
    /\ \E k \in 1 .. Len(yv_test) : yv_test[k] < scaler_y.data_min[1]
    /\ \E k \in 1 .. Len(Xv_test) : \E j \in 1 .. n_lags :
           Xv_test[k][j] > scaler_X.data_max[j]
    /\ Len(X_test_scaled) = Len(Xv_test) /\ Len(y_test_scaled) = Len(yv_test)

\* -------------------------------------------------------- claims (SpecPrep)
Sorted == ppc \in {"select", "impute", "filled"}

Index == [k \in 1 .. Len(df_rows) |-> df_rows[k].date]

\* an index with a missing timestamp is not monotonic
StrictlyIncreasing(idx) ==
    /\ \A k \in 1 .. Len(idx) : idx[k] # NaT
    /\ \A k \in 1 .. Len(idx) - 1 : idx[k] < idx[k + 1]

\* C8 as stated: after the table is parsed, indexed and sorted its timestamp
\* index is unique and strictly increasing, for every table the loader
\* accepts (read in the claim's favour: every table with a parseable date in
\* each row).
C8_IndexStrictlyIncreasing ==
    (Sorted /\ \A k \in 1 .. Len(raw) : raw[k].date # "") => StrictlyIncreasing(Index)

\* C8 as amended: after the sort the timestamps are in non-decreasing order
\* with the rows that have no timestamp last; the index is unique (strictly
\* increasing) exactly when every row of the file has a timestamp and no two
\* rows have the same.
C8_IndexSortedUniqueIffDistinct ==
    Sorted =>
        /\ \A a, b \in 1 .. Len(Index) :
            a < b => /\ Index[a] = NaT => Index[b] = NaT
                     /\ (Index[a] # NaT /\ Index[b] # NaT) => Index[a] <= Index[b]
        /\ StrictlyIncreasing(Index) <=>
            /\ \A k \in 1 .. Len(raw) : raw[k].date # ""
            /\ \A a, b \in 1 .. Len(raw) : a # b => raw[a].date # raw[b].date

C8_Witness ==
    /\ ppc = "select"
    /\ [k \in 1 .. Len(raw) |-> raw[k].date] = <<"2021-01-02", "2021-01-01", "2021-01-02">>
    /\ Index = <<1, 2, 2>>

\* the column `c` of df, as it was before the fill
Before(c) == [k \in 1 .. Len(df_rows) |-> df_rows[k][c]]

\* C6: when each of the four columns has a valid value, after the fill no
\* cell of the four columns is missing; a cell that was valid is unchanged;
\* a missing cell with a valid cell above it holds the nearest such value;
\* a missing cell with none above it holds the first valid value of its
\* column.
C6_FillLeavesNoMissing ==
    (ppc = "filled" /\ \A c \in Columns : \E k \in 1 .. Len(df_rows) : Before(c)[k] # NaN) =>
        \A c \in Columns : \A k \in 1 .. Len(df_rows) :
            LET old == Before(c)
                new == data_cols[c]
                above == {j \in 1 .. k - 1 : old[j] # NaN}
                valid == {j \in 1 .. Len(old) : old[j] # NaN}
            IN  /\ Len(new) = Len(old)
                /\ new[k] # NaN
                /\ old[k] # NaN => new[k] = old[k]
                /\ (old[k] = NaN /\ above # {}) =>
                       \E j \in above : (\A m \in above : m <= j) /\ new[k] = old[j]
                /\ (old[k] = NaN /\ above = {}) =>
                       \E j \in valid : (\A m \in valid : j <= m) /\ new[k] = old[j]

\* an interior gap filled from above and a leading gap filled from below
C6_Witness ==
    /\ ppc = "filled"
    /\ Before("irradiance") = <<1, NaN, 2>>
    /\ data_cols.irradiance = <<1, 1, 2>>
    /\ Before("temperature")[1] = NaN
    /\ data_cols.temperature[1] = Before("temperature")[2]
    /\ \A c \in Columns : \E k \in 1 .. Len(df_rows) : Before(c)[k] # NaN

====
